---- MODULE Spec2Model ----
(***************************************************************************)
(* The unified line diff of bach-codecommander-mcp: computeLCS and         *)
(* computeUnifiedDiff.  A line is a sequence of one-character strings, so  *)
(* that the prefixes ' ', '-', '+' and the rendering of the numbers of a   *)
(* hunk header are part of the text and not an abstraction of it.  The     *)
(* code's arrays are 0-indexed; At(s, k) reads element k of a sequence.    *)
(***************************************************************************)
EXTENDS Integers, Sequences, FiniteSets, TLC

\* ------------------------------------------------------------------------
\* Bounds of the model
\* ------------------------------------------------------------------------
MaxLen == 4
MaxCtx == 2

\* The line texts the two inputs are built from.
Texts == { <<"a">>, <<"b">> }

\* The labels of the two inputs.
LabelsA == { <<"o", "l", "d">> }
LabelsB == { <<"n", "e", "w">> }

RECURSIVE SeqsUpTo(_, _)
SeqsUpTo(S, n) ==
    IF n = 0 THEN { <<>> }
    ELSE LET shorter == SeqsUpTo(S, n - 1)
         IN  shorter \cup { Append(s, x) : s \in { t \in shorter : Len(t) = n - 1 }, x \in S }

LineSeqs == SeqsUpTo(Texts, MaxLen)

\* ------------------------------------------------------------------------
\* Helpers for the code's array and string primitives
\* ------------------------------------------------------------------------
At(s, k) == s[k + 1]

Max(x, y) == IF x >= y THEN x ELSE y

Reverse(s) == [k \in 1..Len(s) |-> s[Len(s) + 1 - k]]

DigitChar(d) == At(<<"0", "1", "2", "3", "4", "5", "6", "7", "8", "9">>, d)

\* `${n}` of a number.
RECURSIVE NumStr(_)
NumStr(n) ==
    IF n < 0 THEN <<"-">> \o NumStr(0 - n)
    ELSE IF n < 10 THEN << DigitChar(n) >>
    ELSE NumStr(n \div 10) \o << DigitChar(n % 10) >>

\* ls.join('\n')
RECURSIVE Join(_)
Join(ls) ==
    IF Len(ls) = 0 THEN <<>>
    ELSE IF Len(ls) = 1 THEN ls[1]
    ELSE ls[1] \o <<"\n">> \o Join(Tail(ls))

\* str.split('\n')
RECURSIVE SplitFrom(_, _, _)
SplitFrom(str, k, cur) ==
    IF k > Len(str) THEN << cur >>
    ELSE IF str[k] = "\n" THEN << cur >> \o SplitFrom(str, k + 1, <<>>)
    ELSE SplitFrom(str, k + 1, Append(cur, str[k]))

Split(str) == SplitFrom(str, 1, <<>>)

\* ------------------------------------------------------------------------
\* computeLCS
\* ------------------------------------------------------------------------
\* A slip in the else branch: the cell to the left is not considered.
CellValueNoLeft(a, b, prev, row, i, j) ==
    IF At(a, i - 1) = At(b, j - 1)
    THEN At(prev, j - 1) + 1
    ELSE At(prev, j)

\* The body of the inner loop: dp[i][j] from dp[i-1][j-1], dp[i-1][j] (both
\* in prev) and dp[i][j-1] (in row).
CellValue(a, b, prev, row, i, j) ==
    IF At(a, i - 1) = At(b, j - 1)
    THEN At(prev, j - 1) + 1
    ELSE Max(At(prev, j), At(row, j - 1))

\* The inner loop over j for one row i, given the finished row i - 1;
\* row is the part of row i filled so far (cells 0 .. j - 1).  A cell is
\* stored once and then read: r is bound to the row with the new cell.
RECURSIVE FillRow(_, _, _, _, _, _)
FillRow(a, b, prev, i, j, row) ==
    IF j > Len(b) THEN row
    ELSE LET stored == { Append(row, CellValue(a, b, prev, row, i, j)) }
         IN  CHOOSE out \in { FillRow(a, b, prev, i, j + 1, r) : r \in stored } : TRUE

\* The outer loop over i; rows is the table filled so far (rows 0 .. i - 1).
RECURSIVE FillTable(_, _, _, _)
FillTable(a, b, i, rows) ==
    IF i > Len(a) THEN rows
    ELSE LET stored == { Append(rows, FillRow(a, b, At(rows, i - 1), i, 1, <<0>>)) }
         IN  CHOOSE out \in { FillTable(a, b, i + 1, r) : r \in stored } : TRUE

\* dp as a sequence of rows: dp[i][j] of the code is At(At(dp, i), j).
computeLCS(a, b) ==
    FillTable(a, b, 1, << [k \in 1..(Len(b) + 1) |-> 0] >>)

Cell(table, i, j) == At(At(table, i), j)

\* ------------------------------------------------------------------------
\* computeUnifiedDiff: backtracking
\* ------------------------------------------------------------------------
\* A slip in the tie-break: the comparison of the two neighbours reversed.
BacktrackBranchReversed(a, b, table, i, j) ==
    IF i > 0 /\ j > 0 /\ At(a, i - 1) = At(b, j - 1) THEN "equal"
    ELSE IF j > 0 /\ (i = 0 \/ Cell(table, i, j - 1) <= Cell(table, i - 1, j)) THEN "insert"
    ELSE "delete"

\* A slip in the tie-break: > for >=, so a tie goes to delete.
BacktrackBranchStrict(a, b, table, i, j) ==
    IF i > 0 /\ j > 0 /\ At(a, i - 1) = At(b, j - 1) THEN "equal"
    ELSE IF j > 0 /\ (i = 0 \/ Cell(table, i, j - 1) > Cell(table, i - 1, j)) THEN "insert"
    ELSE "delete"

\* The branch one iteration of the while loop takes at (i, j).
BacktrackBranch(a, b, table, i, j) ==
    IF i > 0 /\ j > 0 /\ At(a, i - 1) = At(b, j - 1) THEN "equal"
    ELSE IF j > 0 /\ (i = 0 \/ Cell(table, i, j - 1) >= Cell(table, i - 1, j)) THEN "insert"
    ELSE "delete"

EqualRecord(a, i, j)  == [type |-> "equal", lineA |-> i - 1, lineB |-> j - 1, text |-> At(a, i - 1)]
InsertRecord(b, j)    == [type |-> "insert", lineB |-> j - 1, text |-> At(b, j - 1)]
DeleteRecord(a, i)    == [type |-> "delete", lineA |-> i - 1, text |-> At(a, i - 1)]

\* A slip: the list is used in the order it was emitted.
ForwardOrderNotReversed(bt) == bt

\* backtrack.reverse(); changes.push(...backtrack)
ForwardOrder(bt) == Reverse(bt)

\* ------------------------------------------------------------------------
\* computeUnifiedDiff: grouping into hunks
\* ------------------------------------------------------------------------
ContextLine(text) == <<" ">> \o text
DeleteLine(text)  == <<"-">> \o text
InsertLine(text)  == <<"+">> \o text

\* The trailing-context loop: from k on, the first contextLines equal
\* records (added counts those already taken).
RECURSIVE Trailing(_, _, _, _)
Trailing(chs, k, added, ctx) ==
    IF k < Len(chs) /\ added < ctx
    THEN IF At(chs, k).type = "equal"
         THEN << ContextLine(At(chs, k).text) >> \o Trailing(chs, k + 1, added + 1, ctx)
         ELSE Trailing(chs, k + 1, added, ctx)
    ELSE <<>>

\* A slip in the loop bound: trailingAdded <= contextLines.
TrailingContextOneMore(chs, last, ctx) == Trailing(chs, last + 1, 0, ctx + 1)

TrailingContext(chs, last, ctx) == Trailing(chs, last + 1, 0, ctx)

\* The leading-context loop: walks back from k, unshifting equal records,
\* and stops at the first record that is not equal.
RECURSIVE Leading(_, _, _, _)
Leading(chs, k, count, ctx) ==
    IF k >= 0 /\ count < ctx /\ At(chs, k).type = "equal"
    THEN Leading(chs, k - 1, count + 1, ctx) \o << ContextLine(At(chs, k).text) >>
    ELSE <<>>

LeadingContext(chs, at, ctx) == Leading(chs, at - 1, 0, ctx)

\* The gap loop: every equal record strictly between last and at.
RECURSIVE Gap(_, _, _)
Gap(chs, k, at) ==
    IF k < at
    THEN (IF At(chs, k).type = "equal" THEN << ContextLine(At(chs, k).text) >> ELSE <<>>)
         \o Gap(chs, k + 1, at)
    ELSE <<>>

GapContext(chs, last, at) == Gap(chs, last + 1, at)

\* The first branch of the if: the first change.
IsFirstChange(at, last, ctx, hs, hl) ==
    at - last > ctx * 2 + 1 /\ Len(hs) = 0 /\ Len(hl) = 0 /\ last < 0

\* A slip in the threshold: contextLines * 2 without the + 1.
ClosesHunkOffByOne(at, last, ctx, hs, hl) ==
    ~IsFirstChange(at, last, ctx, hs, hl) /\ at - last > ctx * 2 /\ Len(hl) > 0

\* The second branch of the if: the current hunk is closed.
ClosesHunk(at, last, ctx, hs, hl) ==
    ~IsFirstChange(at, last, ctx, hs, hl) /\ at - last > ctx * 2 + 1 /\ Len(hl) > 0

\* A slip: the leading context is not subtracted from the start.
RawStartANoContext(chs, at, contextCount) ==
    IF "lineA" \in DOMAIN At(chs, at) THEN At(chs, at).lineA
    ELSE IF at > 0 /\ "lineA" \in DOMAIN At(chs, at - 1) THEN At(chs, at - 1).lineA + 1
    ELSE 0

\* A slip: one line too many subtracted for the leading context.
RawStartAOneLess(chs, at, contextCount) ==
    (IF "lineA" \in DOMAIN At(chs, at) THEN At(chs, at).lineA
     ELSE IF at > 0 /\ "lineA" \in DOMAIN At(chs, at - 1) THEN At(chs, at - 1).lineA + 1
     ELSE 0) - contextCount - 1

\* The start positions before the clamp to 0.
RawStartA(chs, at, contextCount) ==
    (IF "lineA" \in DOMAIN At(chs, at) THEN At(chs, at).lineA
     ELSE IF at > 0 /\ "lineA" \in DOMAIN At(chs, at - 1) THEN At(chs, at - 1).lineA + 1
     ELSE 0) - contextCount

RawStartB(chs, at, contextCount) ==
    (IF "lineB" \in DOMAIN At(chs, at) THEN At(chs, at).lineB
     ELSE IF at > 0 /\ "lineB" \in DOMAIN At(chs, at - 1) THEN At(chs, at - 1).lineB + 1
     ELSE 0) - contextCount

Clamp(x) == IF x < 0 THEN 0 ELSE x

\* A slip: the two prefixes exchanged.
ChangeLineSwapped(c) == IF c.type = "delete" THEN InsertLine(c.text) ELSE DeleteLine(c.text)

\* The line pushed for an insert or delete record.
ChangeLine(c) == IF c.type = "delete" THEN DeleteLine(c.text) ELSE InsertLine(c.text)

Hunk(sA, cA, sB, cB, ls) ==
    [startA |-> sA, countA |-> cA, startB |-> sB, countB |-> cB, lines |-> ls]

\* A slip: the trailing context is pushed without counting it.
ClosedHunkUncounted(sA, cA, sB, cB, hl, trail) ==
    Hunk(sA, cA, sB, cB, hl \o trail)

\* The hunk pushed once the trailing-context loop has run over trail.
ClosedHunk(sA, cA, sB, cB, hl, trail) ==
    Hunk(sA, cA + Len(trail), sB, cB + Len(trail), hl \o trail)

\* ------------------------------------------------------------------------
\* computeUnifiedDiff: formatting
\* ------------------------------------------------------------------------
\* A slip: the start positions rendered 0-indexed.
HunkHeaderZeroBased(h) ==
    <<"@", "@", " ", "-">> \o NumStr(h.startA) \o <<",">> \o NumStr(h.countA)
    \o <<" ", "+">> \o NumStr(h.startB) \o <<",">> \o NumStr(h.countB)
    \o <<" ", "@", "@">>

HunkHeader(h) ==
    <<"@", "@", " ", "-">> \o NumStr(h.startA + 1) \o <<",">> \o NumStr(h.countA)
    \o <<" ", "+">> \o NumStr(h.startB + 1) \o <<",">> \o NumStr(h.countB)
    \o <<" ", "@", "@">>

RECURSIVE HunkOutput(_)
HunkOutput(hs) ==
    IF Len(hs) = 0 THEN <<>>
    ELSE << HunkHeader(hs[1]) >> \o hs[1].lines \o HunkOutput(Tail(hs))

FormatOutput(hs, fA, fB) ==
    << <<"-", "-", "-", " ">> \o fA, <<"+", "+", "+", " ">> \o fB >> \o HunkOutput(hs)

\* A slip: the early return for an empty hunk list is missing.
ReturnValueNoEarlyReturn(hs, fA, fB) == Join(FormatOutput(hs, fA, fB))

\* The value computeUnifiedDiff returns for a finished hunk list.
ReturnValue(hs, fA, fB) ==
    IF Len(hs) = 0 THEN <<>> ELSE Join(FormatOutput(hs, fA, fB))

\* ------------------------------------------------------------------------
\* computeUnifiedDiff as a function of its arguments
\* ------------------------------------------------------------------------
\* The locals of the grouping loop.
GroupLocals(hs, hl, sA, sB, cA, cB, last) ==
    [hunks |-> hs, hunkLines |-> hl, hunkStartA |-> sA, hunkStartB |-> sB,
     hunkCountA |-> cA, hunkCountB |-> cB, lastChangeIdx |-> last]

InitialLocals == GroupLocals(<<>>, <<>>, 0, 0, 0, 0, -999)

\* The body of the for loop for the insert or delete record at position at.
GroupStep(chs, ctx, at, st) ==
    LET c        == At(chs, at)
        close    == ClosesHunk(at, st.lastChangeIdx, ctx, st.hunks, st.hunkLines)
        trail    == TrailingContext(chs, st.lastChangeIdx, ctx)
        lines1   == IF close THEN <<>> ELSE st.hunkLines
        countA1  == IF close THEN 0 ELSE st.hunkCountA
        countB1  == IF close THEN 0 ELSE st.hunkCountB
        fresh    == Len(lines1) = 0
        lead     == LeadingContext(chs, at, ctx)
        gap      == GapContext(chs, st.lastChangeIdx, at)
        lines2   == IF fresh THEN lead ELSE lines1 \o gap
        countA2  == IF fresh THEN Len(lead) ELSE countA1 + Len(gap)
        countB2  == IF fresh THEN Len(lead) ELSE countB1 + Len(gap)
    IN  GroupLocals(
            IF close
            THEN Append(st.hunks, ClosedHunk(st.hunkStartA, st.hunkCountA, st.hunkStartB,
                                             st.hunkCountB, st.hunkLines, trail))
            ELSE st.hunks,
            Append(lines2, ChangeLine(c)),
            IF fresh THEN Clamp(RawStartA(chs, at, Len(lead))) ELSE st.hunkStartA,
            IF fresh THEN Clamp(RawStartB(chs, at, Len(lead))) ELSE st.hunkStartB,
            IF c.type = "delete" THEN countA2 + 1 ELSE countA2,
            IF c.type = "delete" THEN countB2 ELSE countB2 + 1,
            at)

\* The code after the for loop: the last hunk is closed if one is open.
CloseLast(chs, ctx, st) ==
    LET trail == TrailingContext(chs, st.lastChangeIdx, ctx)
    IN  IF Len(st.hunkLines) > 0
        THEN GroupLocals(
                 Append(st.hunks, ClosedHunk(st.hunkStartA, st.hunkCountA, st.hunkStartB,
                                             st.hunkCountB, st.hunkLines, trail)),
                 st.hunkLines \o trail, st.hunkStartA, st.hunkStartB,
                 st.hunkCountA + Len(trail), st.hunkCountB + Len(trail), st.lastChangeIdx)
        ELSE st

\* The for loop from position at on.
RECURSIVE GroupLoop(_, _, _, _)
GroupLoop(chs, ctx, at, st) ==
    IF at >= Len(chs) THEN st
    ELSE GroupLoop(chs, ctx, at + 1,
                   IF At(chs, at).type = "equal" THEN st ELSE GroupStep(chs, ctx, at, st))

\* The while loop from (i, j) on: the records in the order they are pushed.
RECURSIVE BacktrackLoop(_, _, _, _, _)
BacktrackLoop(a, b, table, i, j) ==
    IF ~(i > 0 \/ j > 0) THEN <<>>
    ELSE LET branch == BacktrackBranch(a, b, table, i, j)
         IN  IF branch = "equal"
             THEN << EqualRecord(a, i, j) >> \o BacktrackLoop(a, b, table, i - 1, j - 1)
             ELSE IF branch = "insert"
             THEN << InsertRecord(b, j) >> \o BacktrackLoop(a, b, table, i, j - 1)
             ELSE << DeleteRecord(a, i) >> \o BacktrackLoop(a, b, table, i - 1, j)

\* The change list of two line sequences.
ChangeList(a, b) ==
    ForwardOrder(BacktrackLoop(a, b, computeLCS(a, b), Len(a), Len(b)))

\* The hunk list of two line sequences.
HunkList(a, b, ctx) ==
    LET chs == ChangeList(a, b)
    IN  CloseLast(chs, ctx, GroupLoop(chs, ctx, 0, InitialLocals)).hunks

computeUnifiedDiff(a, b, ctx, fA, fB) == ReturnValue(HunkList(a, b, ctx), fA, fB)

\* ------------------------------------------------------------------------
\* The array reads of computeUnifiedDiff: << site, index, length >>
\* ------------------------------------------------------------------------
\* One iteration of the while loop at (i, j): the reads of the conditions
\* (with their short circuits) and of the push.
BacktrackReads(a, b, i, j) ==
    LET both  == i > 0 /\ j > 0
        match == both /\ At(a, i - 1) = At(b, j - 1)
    IN  (IF both
         THEN { << "linesA[i - 1]", i - 1, Len(a) >>, << "linesB[j - 1]", j - 1, Len(b) >> }
         ELSE {})
        \cup
        (IF ~match /\ j > 0 /\ i # 0
         THEN { << "dp[i]", i, Len(a) + 1 >>, << "dp[i][j - 1]", j - 1, Len(b) + 1 >>,
                << "dp[i - 1]", i - 1, Len(a) + 1 >>, << "dp[i - 1][j]", j, Len(b) + 1 >> }
         ELSE {})
        \cup
        (IF match THEN { << "linesA[i - 1]", i - 1, Len(a) >> }
         ELSE IF j > 0 /\ (i = 0 \/ Cell(computeLCS(a, b), i, j - 1) >= Cell(computeLCS(a, b), i - 1, j))
         THEN { << "linesB[j - 1]", j - 1, Len(b) >> }
         ELSE { << "linesA[i - 1]", i - 1, Len(a) >> })

\* The reads changes[k] of the trailing-context loop.
RECURSIVE TrailingReads(_, _, _, _)
TrailingReads(chs, k, added, ctx) ==
    IF k < Len(chs) /\ added < ctx
    THEN { << "trailing changes[k]", k, Len(chs) >> }
         \cup TrailingReads(chs, k + 1,
                            IF At(chs, k).type = "equal" THEN added + 1 ELSE added, ctx)
    ELSE {}

\* A slip in the leading-context loop: the guard k >= 0 is missing.
RECURSIVE LeadingReadsUnguarded(_, _, _, _)
LeadingReadsUnguarded(chs, k, count, ctx) ==
    IF count < ctx
    THEN { << "leading changes[k]", k, Len(chs) >> }
         \cup (IF k >= 0 /\ At(chs, k).type = "equal"
               THEN LeadingReadsUnguarded(chs, k - 1, count + 1, ctx)
               ELSE {})
    ELSE {}

\* The reads changes[k] of the leading-context loop.
RECURSIVE LeadingReads(_, _, _, _)
LeadingReads(chs, k, count, ctx) ==
    IF k >= 0 /\ count < ctx
    THEN { << "leading changes[k]", k, Len(chs) >> }
         \cup (IF At(chs, k).type = "equal"
               THEN LeadingReads(chs, k - 1, count + 1, ctx)
               ELSE {})
    ELSE {}

\* changes[idx - 1]?.lineA and changes[idx - 1]?.lineB: read when the
\* record at idx has no lineA or no lineB, which a change never has both of.
StartReads(chs, at) ==
    IF "lineA" \notin DOMAIN At(chs, at) \/ "lineB" \notin DOMAIN At(chs, at)
    THEN { << "changes[idx - 1]", at - 1, Len(chs) >> }
    ELSE {}

\* One iteration of the for loop at position at.
GroupReads(chs, ctx, at, st) ==
    { << "changes[idx]", at, Len(chs) >> }
    \cup
    (IF At(chs, at).type = "equal" THEN {}
     ELSE LET close == ClosesHunk(at, st.lastChangeIdx, ctx, st.hunks, st.hunkLines)
              fresh == close \/ Len(st.hunkLines) = 0
          IN  (IF close THEN TrailingReads(chs, st.lastChangeIdx + 1, 0, ctx) ELSE {})
              \cup
              (IF fresh
               THEN LeadingReads(chs, at - 1, 0, ctx) \cup StartReads(chs, at)
               ELSE { << "gap changes[k]", k, Len(chs) >> : k \in (st.lastChangeIdx + 1)..(at - 1) }))

\* The reads of the code after the for loop.
CloseLastReads(chs, ctx, st) ==
    IF Len(st.hunkLines) > 0 THEN TrailingReads(chs, st.lastChangeIdx + 1, 0, ctx) ELSE {}

\* ------------------------------------------------------------------------
\* State
\* ------------------------------------------------------------------------
VARIABLES
    linesA, linesB, contextLines, fileA, fileB,   \* the arguments
    pc,                                           \* position in computeUnifiedDiff
    dp, i, j, backtrack, changes,                 \* alignment
    hunks, hunkLines, hunkStartA, hunkStartB,     \* grouping
    hunkCountA, hunkCountB, lastChangeIdx, idx,
    returned                                      \* the returned string

args  == << linesA, linesB, contextLines, fileA, fileB >>
align == << dp, i, j, backtrack, changes >>
group == << hunks, hunkLines, hunkStartA, hunkStartB, hunkCountA, hunkCountB,
            lastChangeIdx, idx >>

\* The server around the function: the language of src/i18n, the files on
\* disk and the cc_diff_files calls in flight.
VARIABLES
    current,          \* let current: Lang
    files,            \* the file system: normalized path -> content
    callPc,           \* per call: the await the handler is suspended at
    params,           \* per call: the arguments of the request
    handlerLocals,    \* per invocation: fileA, fileB, contentA, contentB, ...
    response,         \* per call: the value the handler returned
    interleaved,      \* per call: another cc_diff_files handler ran while it was suspended
    CC_LANGUAGE,      \* process.env.CC_LANGUAGE at process start
    languageLog       \* the cc_set_language calls so far: argument and reply

process == << CC_LANGUAGE, languageLog >>
server == << current, files, callPc, params, handlerLocals, response, interleaved, process >>
vars  == << args, pc, align, group, returned, server >>

CallIds == {"c1", "c2"}

\* No file, no call: the function runs on its own.
NoCalls ==
    /\ current = "de"
    /\ files = << >>
    /\ callPc = [c \in CallIds |-> "idle"]
    /\ params = [c \in CallIds |-> << >>]
    /\ handlerLocals = [c \in CallIds |-> << >>]
    /\ response = [c \in CallIds |-> << >>]
    /\ interleaved = [c \in CallIds |-> FALSE]
    /\ CC_LANGUAGE = ""
    /\ languageLog = << >>

\* The grouping locals as one value.
Locals == GroupLocals(hunks, hunkLines, hunkStartA, hunkStartB, hunkCountA, hunkCountB,
                      lastChangeIdx)

Init ==
    /\ linesA \in LineSeqs
    /\ linesB \in LineSeqs
    /\ contextLines \in 0..MaxCtx
    /\ fileA \in LabelsA
    /\ fileB \in LabelsB
    /\ pc = "lcs"
    /\ dp = <<>>
    /\ i = 0
    /\ j = 0
    /\ backtrack = <<>>
    /\ changes = <<>>
    /\ hunks = <<>>
    /\ hunkLines = <<>>
    /\ hunkStartA = 0
    /\ hunkStartB = 0
    /\ hunkCountA = 0
    /\ hunkCountB = 0
    /\ lastChangeIdx = -999
    /\ idx = 0
    /\ returned = <<>>
    /\ NoCalls

\* const dp = computeLCS(linesA, linesB); let i = linesA.length; let j = linesB.length
ComputeLCS ==
    /\ pc = "lcs"
    /\ dp' = computeLCS(linesA, linesB)
    /\ i' = Len(linesA)
    /\ j' = Len(linesB)
    /\ pc' = "backtrack"
    /\ UNCHANGED << server, args, backtrack, changes, group, returned >>

BacktrackEqual ==
    /\ pc = "backtrack"
    /\ i > 0 \/ j > 0
    /\ BacktrackBranch(linesA, linesB, dp, i, j) = "equal"
    /\ backtrack' = Append(backtrack, EqualRecord(linesA, i, j))
    /\ i' = i - 1
    /\ j' = j - 1
    /\ UNCHANGED << server, args, pc, dp, changes, group, returned >>

BacktrackInsert ==
    /\ pc = "backtrack"
    /\ i > 0 \/ j > 0
    /\ BacktrackBranch(linesA, linesB, dp, i, j) = "insert"
    /\ backtrack' = Append(backtrack, InsertRecord(linesB, j))
    /\ j' = j - 1
    /\ UNCHANGED << server, args, pc, dp, i, changes, group, returned >>

BacktrackDelete ==
    /\ pc = "backtrack"
    /\ i > 0 \/ j > 0
    /\ BacktrackBranch(linesA, linesB, dp, i, j) = "delete"
    /\ backtrack' = Append(backtrack, DeleteRecord(linesA, i))
    /\ i' = i - 1
    /\ UNCHANGED << server, args, pc, dp, j, changes, group, returned >>

\* The loop has ended: backtrack.reverse(); changes.push(...backtrack)
BacktrackReverse ==
    /\ pc = "backtrack"
    /\ ~(i > 0 \/ j > 0)
    /\ changes' = ForwardOrder(backtrack)
    /\ pc' = "group"
    /\ UNCHANGED << server, args, dp, i, j, backtrack, group, returned >>

\* One iteration of the for loop on an equal record: nothing happens.
GroupEqual ==
    /\ pc = "group"
    /\ idx < Len(changes)
    /\ At(changes, idx).type = "equal"
    /\ idx' = idx + 1
    /\ UNCHANGED << server, args, pc, align, hunks, hunkLines, hunkStartA, hunkStartB,
                    hunkCountA, hunkCountB, lastChangeIdx, returned >>

\* One iteration of the for loop on an insert or delete record.
GroupChange ==
    /\ pc = "group"
    /\ idx < Len(changes)
    /\ At(changes, idx).type # "equal"
    /\ LET st == GroupStep(changes, contextLines, idx, Locals)
       IN  /\ hunks' = st.hunks
           /\ hunkLines' = st.hunkLines
           /\ hunkStartA' = st.hunkStartA
           /\ hunkStartB' = st.hunkStartB
           /\ hunkCountA' = st.hunkCountA
           /\ hunkCountB' = st.hunkCountB
           /\ lastChangeIdx' = st.lastChangeIdx
    /\ idx' = idx + 1
    /\ UNCHANGED << server, args, pc, align, returned >>

\* After the loop: close the last hunk, if one is open.
CloseLastHunk ==
    /\ pc = "group"
    /\ idx = Len(changes)
    /\ LET st == CloseLast(changes, contextLines, Locals)
       IN  /\ hunks' = st.hunks
           /\ hunkLines' = st.hunkLines
           /\ hunkCountA' = st.hunkCountA
           /\ hunkCountB' = st.hunkCountB
    /\ pc' = "format"
    /\ UNCHANGED << server, args, align, hunkStartA, hunkStartB, lastChangeIdx, idx, returned >>

\* if (hunks.length === 0) return ''; otherwise the formatted output.
Return ==
    /\ pc = "format"
    /\ returned' = ReturnValue(hunks, fileA, fileB)
    /\ pc' = "done"
    /\ UNCHANGED << server, args, align, group >>

Next ==
    \/ ComputeLCS
    \/ BacktrackEqual
    \/ BacktrackInsert
    \/ BacktrackDelete
    \/ BacktrackReverse
    \/ GroupEqual
    \/ GroupChange
    \/ CloseLastHunk
    \/ Return

Spec == Init /\ [][Next]_vars

\* ------------------------------------------------------------------------
\* Definitions the properties are stated with
\* ------------------------------------------------------------------------
\* The change list exists from the end of backtracking on.
Aligned == pc \in {"group", "format", "done"}

Done == pc = "done"

OfType(chs, types) == SelectSeq(chs, LAMBDA c : c.type \in types)

TextsOf(recs) == [k \in 1..Len(recs) |-> recs[k].text]

\* The subsequence of s at the positions in S.
RECURSIVE Pick(_, _, _)
Pick(s, S, k) ==
    IF k > Len(s) THEN <<>>
    ELSE (IF k \in S THEN << s[k] >> ELSE <<>>) \o Pick(s, S, k + 1)

Subsequences(s) == { Pick(s, S, 1) : S \in SUBSET (1..Len(s)) }

MaxOf(S) == CHOOSE x \in S : \A y \in S : y <= x

\* The length of a longest common subsequence, from the definition: the
\* longest sequence that is a subsequence of both.
LCSLength(s, t) == MaxOf({ Len(u) : u \in Subsequences(s) \cap Subsequences(t) })

FirstN(s, n) == SubSeq(s, 1, n)

\* ------------------------------------------------------------------------
\* C1: read in forward order, the change list reconstructs both inputs:
\* the Equal and Delete records carry exactly the lines of A, in order and
\* with lineA the position of each, and the Equal and Insert records carry
\* exactly the lines of B, in order and with lineB the position of each.
\* ------------------------------------------------------------------------
C1_Reconstruction ==
    Aligned =>
        LET sideA == OfType(changes, {"equal", "delete"})
            sideB == OfType(changes, {"equal", "insert"})
        IN  /\ TextsOf(sideA) = linesA
            /\ TextsOf(sideB) = linesB
            /\ \A k \in 1..Len(sideA) : sideA[k].lineA = k - 1
            /\ \A k \in 1..Len(sideB) : sideB[k].lineB = k - 1

C1_Witness ==
    /\ Aligned
    /\ \A ty \in {"equal", "delete", "insert"} : Len(OfType(changes, {ty})) > 0
    /\ Len(changes) >= 4

\* ------------------------------------------------------------------------
\* C2: the number of Insert plus Delete records is
\* lenA + lenB - 2 * LCS_length(A, B); a transposition [x, y] / [y, x]
\* gives one Delete and one Insert.
\* ------------------------------------------------------------------------
C2_Minimality ==
    Aligned =>
        /\ Len(OfType(changes, {"insert", "delete"}))
             = Len(linesA) + Len(linesB) - 2 * LCSLength(linesA, linesB)
        /\ ( /\ Len(linesA) = 2
             /\ linesA[1] # linesA[2]
             /\ linesB = << linesA[2], linesA[1] >> )
           => /\ Len(OfType(changes, {"delete"})) = 1
              /\ Len(OfType(changes, {"insert"})) = 1

C2_Witness ==
    /\ Aligned
    /\ Len(linesA) = 2
    /\ linesA[1] # linesA[2]
    /\ linesB = << linesA[2], linesA[1] >>
    /\ Len(changes) = 3

\* ------------------------------------------------------------------------
\* C3: dp[i][j] is the length of a longest common subsequence of the first
\* i lines of A and the first j lines of B, and row 0 and column 0 are 0.
\* ------------------------------------------------------------------------
C3_TableIsLCS ==
    (pc = "backtrack" /\ backtrack = <<>>) =>
        LET subA == [m \in 0..Len(linesA) |-> Subsequences(FirstN(linesA, m))]
            subB == [n \in 0..Len(linesB) |-> Subsequences(FirstN(linesB, n))]
        IN  /\ Len(dp) = Len(linesA) + 1
            /\ \A m \in 0..Len(linesA) :
                 /\ Len(At(dp, m)) = Len(linesB) + 1
                 /\ \A n \in 0..Len(linesB) :
                      /\ Cell(dp, m, n) = MaxOf({ Len(u) : u \in subA[m] \cap subB[n] })
                      /\ (m = 0 \/ n = 0) => Cell(dp, m, n) = 0

C3_Witness ==
    /\ pc = "backtrack"
    /\ backtrack = <<>>
    /\ Len(linesA) >= 3
    /\ Len(linesB) >= 3
    /\ Cell(dp, Len(linesA), Len(linesB)) = 2
    /\ Cell(dp, 2, 2) = 1

\* ------------------------------------------------------------------------
\* Reading hunks and the change list
\* ------------------------------------------------------------------------
IsMarked(line)  == Len(line) > 0 /\ Head(line) \in {"+", "-"}
IsContext(line) == Len(line) > 0 /\ Head(line) = " "

MarkedLines(ls) == SelectSeq(ls, IsMarked)

NumWith(ls, prefix) == Len(SelectSeq(ls, LAMBDA l : Len(l) > 0 /\ Head(l) = prefix))

RECURSIVE AllHunkLines(_)
AllHunkLines(hs) ==
    IF Len(hs) = 0 THEN <<>> ELSE hs[1].lines \o AllHunkLines(Tail(hs))

\* The number of '+' and '-' lines in the first n hunks.
MarkedUpTo(hs, n) == Len(MarkedLines(AllHunkLines(FirstN(hs, n))))

\* The hunk that holds the n-th '+' or '-' line of the report.
HunkOfNth(hs, n) ==
    CHOOSE h \in 1..Len(hs) : MarkedUpTo(hs, h - 1) < n /\ n <= MarkedUpTo(hs, h)

\* The positions (0-indexed) of the Insert and Delete records, in order.
ChangePositions(chs) ==
    SelectSeq([k \in 1..Len(chs) |-> k - 1], LAMBDA k : At(chs, k).type # "equal")

\* The Equal records immediately before and after position p.
EqualsBefore(chs, p) ==
    MaxOf({ n \in 0..p : \A k \in 1..n : At(chs, p - k).type = "equal" })

EqualsAfter(chs, p) ==
    MaxOf({ n \in 0..(Len(chs) - 1 - p) : \A k \in 1..n : At(chs, p + k).type = "equal" })

\* The context lines of a hunk before its first and after its last change.
LeadCount(ls) ==
    MaxOf({ n \in 0..Len(ls) : \A k \in 1..n : IsContext(ls[k]) })

TrailCount(ls) ==
    MaxOf({ n \in 0..Len(ls) : \A k \in 1..n : IsContext(ls[Len(ls) + 1 - k]) })

\* The '+' or '-' line a record is to be shown as.
ShownAs(c) == << (IF c.type = "insert" THEN "+" ELSE "-") >> \o c.text

ExpectedMarked ==
    LET pos == ChangePositions(changes)
    IN  [n \in 1..Len(pos) |-> ShownAs(At(changes, pos[n]))]

\* ------------------------------------------------------------------------
\* C4: diff(A, A, contextLines) has zero hunks and is the empty string.
\* ------------------------------------------------------------------------
C4_Identity ==
    (Done /\ linesA = linesB) => (Len(hunks) = 0 /\ returned = <<>>)

C4_Witness ==
    /\ Done
    /\ linesA = linesB
    /\ Len(linesA) >= 2
    /\ contextLines >= 1

\* ------------------------------------------------------------------------
\* C5: when A and B differ the report is '--- <labelA>', '+++ <labelB>' and
\* then, for each hunk in order, '@@ -<startA+1>,<countA> +<startB+1>,
\* <countB> @@' and the hunk's lines, each prefixed ' ', '-' or '+'; the
\* empty string is returned only for identical inputs.
\* ------------------------------------------------------------------------
C5_Header(h) ==
    <<"@", "@", " ">> \o <<"-">> \o NumStr(h.startA + 1) \o <<",">> \o NumStr(h.countA)
    \o <<" ">> \o <<"+">> \o NumStr(h.startB + 1) \o <<",">> \o NumStr(h.countB)
    \o <<" ", "@", "@">>

RECURSIVE C5_Body(_)
C5_Body(hs) ==
    IF Len(hs) = 0 THEN <<>>
    ELSE << C5_Header(hs[1]) >> \o hs[1].lines \o C5_Body(Tail(hs))

C5_ReportFormat ==
    Done =>
        /\ (returned = <<>>) <=> (linesA = linesB)
        /\ linesA # linesB =>
             /\ Len(hunks) >= 1
             /\ Split(returned)
                  = << <<"-", "-", "-", " ">> \o fileA, <<"+", "+", "+", " ">> \o fileB >>
                    \o C5_Body(hunks)
             /\ \A h \in 1..Len(hunks) : \A k \in 1..Len(hunks[h].lines) :
                  IsMarked(hunks[h].lines[k]) \/ IsContext(hunks[h].lines[k])

C5_Witness ==
    /\ Done
    /\ linesA # linesB
    /\ Len(hunks) >= 2
    /\ Len(Split(returned)) >= 8

\* ------------------------------------------------------------------------
\* C6: two consecutive changes with at most 2 * contextLines Equal records
\* between them are in the same hunk; with more, in different hunks.
\* ------------------------------------------------------------------------
C6_MergeThreshold ==
    Done =>
        LET pos == ChangePositions(changes)
        IN  /\ MarkedUpTo(hunks, Len(hunks)) = Len(pos)
            /\ \A n \in 1..(Len(pos) - 1) :
                 LET between == pos[n + 1] - pos[n] - 1
                 IN  IF between <= 2 * contextLines
                     THEN HunkOfNth(hunks, n) = HunkOfNth(hunks, n + 1)
                     ELSE HunkOfNth(hunks, n) # HunkOfNth(hunks, n + 1)

C6_Witness ==
    /\ Done
    /\ contextLines >= 1
    /\ LET pos == ChangePositions(changes)
       IN  \E n \in 1..(Len(pos) - 1) :
              /\ pos[n + 1] - pos[n] - 1 = 2 * contextLines + 1
              /\ HunkOfNth(hunks, n) # HunkOfNth(hunks, n + 1)

\* ------------------------------------------------------------------------
\* C7: a hunk has min(contextLines, Equal records immediately before its
\* first change) context lines before that change, and min(contextLines,
\* Equal records immediately after its last change) after that change.
\* ------------------------------------------------------------------------
C7_ContextBounding ==
    Done =>
        LET pos == ChangePositions(changes)
            Min(x, y) == IF x <= y THEN x ELSE y
        IN  /\ MarkedUpTo(hunks, Len(hunks)) = Len(pos)
            /\ \A h \in 1..Len(hunks) :
                 LET first == MarkedUpTo(hunks, h - 1) + 1
                     last  == MarkedUpTo(hunks, h)
                 IN  /\ first <= last
                     /\ LeadCount(hunks[h].lines)
                          = Min(contextLines, EqualsBefore(changes, pos[first]))
                     /\ TrailCount(hunks[h].lines)
                          = Min(contextLines, EqualsAfter(changes, pos[last]))

C7_Witness ==
    /\ Done
    /\ contextLines >= 1
    /\ Len(hunks) = 1
    /\ LET pos == ChangePositions(changes)
       IN  /\ Len(pos) >= 1
           /\ EqualsBefore(changes, pos[1]) > contextLines
           /\ LeadCount(hunks[1].lines) = contextLines
           /\ EqualsAfter(changes, pos[Len(pos)]) < contextLines
           /\ TrailCount(hunks[1].lines) = EqualsAfter(changes, pos[Len(pos)])

\* ------------------------------------------------------------------------
\* C8: every Insert and Delete record is a '+' or '-' line of exactly one
\* hunk, once, and these lines come in the order of the records, in the
\* hunk list and in the returned report.
\* ------------------------------------------------------------------------
C8_ChangesOnce ==
    Done =>
        /\ MarkedLines(AllHunkLines(hunks)) = ExpectedMarked
        /\ LET out == Split(returned)
           IN  MarkedLines(SubSeq(out, 3, Len(out))) = ExpectedMarked

C8_Witness ==
    /\ Done
    /\ Len(hunks) >= 2
    /\ Len(OfType(changes, {"insert"})) >= 1
    /\ Len(OfType(changes, {"delete"})) >= 2

\* ------------------------------------------------------------------------
\* C9: in every hunk emitted, countA is the number of context lines plus
\* '-' lines and countB the number of context lines plus '+' lines.
\* ------------------------------------------------------------------------
C9_Counts ==
    \A h \in 1..Len(hunks) :
        /\ hunks[h].countA = NumWith(hunks[h].lines, " ") + NumWith(hunks[h].lines, "-")
        /\ hunks[h].countB = NumWith(hunks[h].lines, " ") + NumWith(hunks[h].lines, "+")

C9_Witness ==
    /\ Done
    /\ \E h \in 1..Len(hunks) :
          /\ hunks[h].countA > hunks[h].countB
          /\ hunks[h].countB > 0
          /\ NumWith(hunks[h].lines, "+") >= 1
          /\ TrailCount(hunks[h].lines) >= 1

\* ------------------------------------------------------------------------
\* C10: startA and startB are the 0-indexed positions of the hunk's first
\* line: its context and '-' lines are A[startA .. startA+countA-1], its
\* context and '+' lines are B[startB .. startB+countB-1], within bounds.
\* ------------------------------------------------------------------------
SideTexts(ls, mark) ==
    LET side == SelectSeq(ls, LAMBDA l : Len(l) > 0 /\ Head(l) \in {" ", mark})
    IN  [k \in 1..Len(side) |-> Tail(side[k])]

C10_Starts ==
    \A h \in 1..Len(hunks) :
        LET hk == hunks[h]
        IN  /\ 0 <= hk.startA
            /\ hk.startA + hk.countA <= Len(linesA)
            /\ 0 <= hk.startB
            /\ hk.startB + hk.countB <= Len(linesB)
            /\ SideTexts(hk.lines, "-") = SubSeq(linesA, hk.startA + 1, hk.startA + hk.countA)
            /\ SideTexts(hk.lines, "+") = SubSeq(linesB, hk.startB + 1, hk.startB + hk.countB)

C10_Witness ==
    /\ Done
    /\ \E h \in 1..Len(hunks) :
          /\ hunks[h].startA > 0
          /\ hunks[h].startB > 0
          /\ hunks[h].startA # hunks[h].startB
          /\ LeadCount(hunks[h].lines) >= 1
          /\ NumWith(hunks[h].lines, "+") >= 1

\* ------------------------------------------------------------------------
\* The steps of the state machine compute computeUnifiedDiff.
\* ------------------------------------------------------------------------
StepsComputeTheFunction ==
    /\ Aligned => changes = ChangeList(linesA, linesB)
    /\ pc \in {"format", "done"} => hunks = HunkList(linesA, linesB, contextLines)
    /\ Done => returned = computeUnifiedDiff(linesA, linesB, contextLines, fileA, fileB)

\* ------------------------------------------------------------------------
\* The concrete scenarios: computeUnifiedDiff on fixed inputs
\* ------------------------------------------------------------------------
\* context_lines: z.number().int().min(0).max(20).default(3)
DefaultContext == 3

New  == <<"n", "e", "w">>
Five == <<"f", "i", "v", "e">>
OneToTen ==
    << <<"1">>, <<"2">>, <<"3">>, <<"4">>, <<"5">>, <<"6">>, <<"7">>, <<"8">>, <<"9">>,
       <<"1", "0">> >>

\* Two changed lines with n unchanged lines between them.
SixBetween   == << <<"1">>, <<"2">>, <<"3">>, <<"4">>, <<"5">>, <<"6">> >>
SevenBetween == SixBetween \o << <<"7">> >>

Scenarios ==
    { << << <<"a">>, <<"b">>, <<"c">> >>, << <<"a">>, <<"b">>, <<"c">> >> >>,
      << << <<"a">>, <<"b">>, <<"c">> >>, << <<"a">>, <<"x">>, <<"c">> >> >>,
      << OneToTen, [OneToTen EXCEPT ![5] = Five] >>,
      << <<>>, << New >> >>,
      << << <<"x">>, <<"y">> >>, << <<"y">>, <<"x">> >> >>,
      << << <<"a">> >> \o SixBetween \o << <<"b">> >>,
         << <<"c">> >> \o SixBetween \o << <<"d">> >> >>,
      << << <<"a">> >> \o SevenBetween \o << <<"b">> >>,
         << <<"c">> >> \o SevenBetween \o << <<"d">> >> >> }

InitScenario ==
    /\ \E sc \in Scenarios : linesA = sc[1] /\ linesB = sc[2]
    /\ contextLines \in 0..DefaultContext
    /\ fileA \in LabelsA
    /\ fileB \in LabelsB
    /\ pc = "lcs"
    /\ dp = <<>>
    /\ i = 0
    /\ j = 0
    /\ backtrack = <<>>
    /\ changes = <<>>
    /\ hunks = <<>>
    /\ hunkLines = <<>>
    /\ hunkStartA = 0
    /\ hunkStartB = 0
    /\ hunkCountA = 0
    /\ hunkCountB = 0
    /\ lastChangeIdx = -999
    /\ idx = 0
    /\ returned = <<>>
    /\ NoCalls

SpecScenario == InitScenario /\ [][Next]_vars

\* The lines of the returned report.
ReportLines == Split(returned)

\* ------------------------------------------------------------------------
\* C11: for A = [] and B = ["new"] the report has a single hunk holding only
\* '+new', and its header is '@@ -0,0 +1,1 @@'.
\* ------------------------------------------------------------------------
PureInsertion == linesA = <<>> /\ linesB = << New >>

C11_PureInsertionHeader ==
    (Done /\ PureInsertion) =>
        /\ Len(hunks) = 1
        /\ hunks[1].lines = << <<"+">> \o New >>
        /\ ReportLines
             = << <<"-", "-", "-", " ">> \o fileA, <<"+", "+", "+", " ">> \o fileB,
                  <<"@", "@", " ", "-", "0", ",", "0", " ", "+", "1", ",", "1", " ", "@", "@">>,
                  <<"+">> \o New >>

\* ------------------------------------------------------------------------
\* C12: for A = ["1", ..., "10"] and B with "5" replaced by "five", with
\* contextLines = 3, the report has one hunk: three context lines, the
\* changed pair, three context lines.  Its header is '@@ -2,7 +2,7 @@'
\* (C12_HeaderAsClaimed states the header '@@ -3,5 +3,5 @@').
\* ------------------------------------------------------------------------
ReplaceFive ==
    /\ linesA = OneToTen
    /\ linesB = [OneToTen EXCEPT ![5] = Five]
    /\ contextLines = 3

C12_HunkLines ==
    << <<" ", "2">>, <<" ", "3">>, <<" ", "4">>, <<"-", "5">>, <<"+">> \o Five,
       <<" ", "6">>, <<" ", "7">>, <<" ", "8">> >>

C12_ReplacedLine ==
    (Done /\ ReplaceFive) =>
        /\ Len(hunks) = 1
        /\ hunks[1].lines = C12_HunkLines
        /\ ReportLines[3]
             = <<"@", "@", " ", "-", "2", ",", "7", " ", "+", "2", ",", "7", " ", "@", "@">>
        /\ SubSeq(ReportLines, 4, Len(ReportLines)) = C12_HunkLines

C12_HeaderAsClaimed ==
    (Done /\ ReplaceFive) =>
        /\ Len(hunks) = 1
        /\ hunks[1].lines = C12_HunkLines
        /\ ReportLines[3]
             = <<"@", "@", " ", "-", "3", ",", "5", " ", "+", "3", ",", "5", " ", "@", "@">>

C12_Witness == Done /\ ReplaceFive /\ Len(ReportLines) = 11

\* ------------------------------------------------------------------------
\* C13: diff(B, A) against diff(A, B).  The number of '-' lines of one is
\* the number of '+' lines of the other, and conversely
\* (C13_RolesSwapped states that the texts of these lines are the same
\* sequences).
\* ------------------------------------------------------------------------
\* The texts of the lines of a report that carry the given mark; the two
\* label lines are not hunk lines.
MarkedTexts(report, mark) ==
    LET body == SubSeq(report, 3, Len(report))
        side == SelectSeq(body, LAMBDA l : Len(l) > 0 /\ Head(l) = mark)
    IN  [k \in 1..Len(side) |-> Tail(side[k])]

\* The lines of the report of diff(B, A).
SwappedReportLines ==
    Split(computeUnifiedDiff(linesB, linesA, contextLines, fileB, fileA))

C13_RolesSwapped ==
    Done =>
        /\ MarkedTexts(ReportLines, "-") = MarkedTexts(SwappedReportLines, "+")
        /\ MarkedTexts(ReportLines, "+") = MarkedTexts(SwappedReportLines, "-")

C13_CountsSwapped ==
    Done =>
        /\ Len(MarkedTexts(ReportLines, "-")) = Len(MarkedTexts(SwappedReportLines, "+"))
        /\ Len(MarkedTexts(ReportLines, "+")) = Len(MarkedTexts(SwappedReportLines, "-"))

C13_Witness ==
    /\ Done
    /\ Len(MarkedTexts(ReportLines, "-")) = 2
    /\ Len(MarkedTexts(ReportLines, "+")) = 1
    /\ MarkedTexts(ReportLines, "-") # MarkedTexts(SwappedReportLines, "+")

\* ------------------------------------------------------------------------
\* C14: where the backtracker meets a tie dp[i][j-1] = dp[i-1][j] on lines
\* that do not match, the report presents the removals of that run of
\* changes before its additions ('-' lines before '+' lines)
\* (C14_AdditionFirst states the additions first).
\* ------------------------------------------------------------------------
\* The number of the first k elements of tags that are in S.
CountIn(tags, k, S) == Cardinality({ m \in 1..k : tags[m] \in S })

TypesOf(chs) == [k \in 1..Len(chs) |-> chs[k].type]

\* The first character of each line ("" for an empty line).
MarksOf(ls) == [k \in 1..Len(ls) |-> IF Len(ls[k]) > 0 THEN Head(ls[k]) ELSE ""]

\* Record k of the change list (counted from 1) was pushed at a tie: the
\* loop stood at (i, j) with both positive, lines that differ and equal
\* table cells to the left and above.
PushedAtTie(k) ==
    LET ty == TypesOf(changes)
        ii == CountIn(ty, k, {"equal", "delete"})
        jj == CountIn(ty, k, {"equal", "insert"})
    IN  /\ ty[k] # "equal"
        /\ ii > 0
        /\ jj > 0
        /\ At(linesA, ii - 1) # At(linesB, jj - 1)
        /\ Cell(dp, ii, jj - 1) = Cell(dp, ii - 1, jj)

\* In the maximal run of change tags around position k, no tag `later`
\* stands before a tag `earlier`.
RunOrdered(tags, k, changeTags, earlier, later) ==
    LET lo == CHOOSE l \in 1..k :
                  /\ \A m \in l..k : tags[m] \in changeTags
                  /\ l = 1 \/ tags[l - 1] \notin changeTags
        hi == CHOOSE h \in k..Len(tags) :
                  /\ \A m \in k..h : tags[m] \in changeTags
                  /\ h = Len(tags) \/ tags[h + 1] \notin changeTags
    IN  \A p \in lo..hi : \A q \in lo..hi :
            p < q => ~(tags[p] = later /\ tags[q] = earlier)

\* The position in the report of the line that shows record k.
ReportLineOf(k) ==
    LET marks == MarksOf(ReportLines)
        n     == CountIn(TypesOf(changes), k, {"insert", "delete"})
    IN  CHOOSE p \in 3..Len(marks) :
            /\ marks[p] \in {"+", "-"}
            /\ CountIn(marks, p, {"+", "-"}) - CountIn(marks, 2, {"+", "-"}) = n

C14_RemovalFirst ==
    Done =>
        \A k \in 1..Len(changes) :
            PushedAtTie(k) =>
                /\ RunOrdered(TypesOf(changes), k, {"insert", "delete"}, "delete", "insert")
                /\ RunOrdered(MarksOf(ReportLines), ReportLineOf(k), {"+", "-"}, "-", "+")

C14_AdditionFirst ==
    Done =>
        \A k \in 1..Len(changes) :
            PushedAtTie(k) =>
                /\ RunOrdered(TypesOf(changes), k, {"insert", "delete"}, "insert", "delete")
                /\ RunOrdered(MarksOf(ReportLines), ReportLineOf(k), {"+", "-"}, "+", "-")

C14_Witness ==
    /\ Done
    /\ \E k \in 2..Len(changes) :
          /\ PushedAtTie(k)
          /\ changes[k].type = "insert"
          /\ changes[k - 1].type = "delete"
          /\ MarksOf(ReportLines)[ReportLineOf(k)] = "+"
          /\ MarksOf(ReportLines)[ReportLineOf(k) - 1] = "-"

\* ------------------------------------------------------------------------
\* C15: computeUnifiedDiff terminates and returns for all inputs: every
\* backtracking iteration strictly decreases i + j, the loop stops at
\* (0, 0), and every array read is in range except changes[idx - 1] at
\* idx = 0, which is read behind ?. when the first record is a change
\* (C15_AllReadsInRange states that no read at all is out of range).
\* ------------------------------------------------------------------------
SpecFair == Spec /\ WF_vars(Next)

\* The reads of the step the function takes next.
ReadsNow ==
    IF pc = "backtrack" /\ (i > 0 \/ j > 0) THEN BacktrackReads(linesA, linesB, i, j)
    ELSE IF pc = "group" /\ idx < Len(changes)
    THEN GroupReads(changes, contextLines, idx, Locals)
    ELSE IF pc = "group" THEN CloseLastReads(changes, contextLines, Locals)
    ELSE {}

InRange(r) == 0 <= r[2] /\ r[2] < r[3]

C15_AllReadsInRange == \A r \in ReadsNow : InRange(r)

C15_Terminates ==
    /\ [](\A r \in ReadsNow : InRange(r) \/ (r[1] = "changes[idx - 1]" /\ idx = 0))
    /\ [](pc \in {"group", "format", "done"} => (i = 0 /\ j = 0))
    /\ [][(pc = "backtrack" /\ pc' = "backtrack")
            => (i' + j' < i + j /\ i' >= 0 /\ j' >= 0)]_vars
    /\ <>Done

C15_Witness ==
    /\ Done
    /\ Len(changes) >= 2
    /\ changes[1].type # "equal"
    /\ Len(hunks) >= 1
    /\ contextLines >= 1

\* ------------------------------------------------------------------------
\* src/i18n and the translation tables
\* ------------------------------------------------------------------------
\* A message is a string of characters; the fixed wording of a translation
\* is kept as one element of that string.
en_common ==
    [ fileNotFound |-> "File not found: ",
      error        |-> "Error: " ]

de_common ==
    [ fileNotFound |-> "Datei nicht gefunden: ",
      error        |-> "Fehler: " ]

\* The cc_diff_files entries of the two tables: the header, the 'identical'
\* message and the lines-changed summary.  Their wording is not among the
\* sources; each entry stands for a text of its own per language, and the
\* summary shows the two totals.
en_cc_diff_files ==
    [ header       |-> "Diff: ",
      identical    |-> "Files are identical.",
      linesChanged |-> " lines changed" ]

de_cc_diff_files ==
    [ header       |-> "Vergleich: ",
      identical    |-> "Dateien sind identisch.",
      linesChanged |-> " Zeilen geaendert" ]

en_cc_set_language == [ languageSet |-> "Language set to: " ]
de_cc_set_language == [ languageSet |-> "Sprache gesetzt auf: " ]

en == [ common |-> en_common, cc_diff_files |-> en_cc_diff_files,
        cc_set_language |-> en_cc_set_language ]
de == [ common |-> de_common, cc_diff_files |-> de_cc_diff_files,
        cc_set_language |-> de_cc_set_language ]

Languages == {"de", "en"}

langs == [ lang \in Languages |-> IF lang = "de" THEN de ELSE en ]

\* A slip: the table is fixed when the module is loaded.
tGerman == langs["de"]

\* export function t(): Translations { return langs[current]; }
t == langs[current]

\* export function getLanguage(): Lang { return current; }
getLanguage == current

\* The value of CC_LANGUAGE at process start ("" stands for unset).
EnvValues == {"", "de", "en", "fr"}

\* A slip: the value of CC_LANGUAGE is taken as it is.
StartupLanguageUnfiltered(env) == IF env = "" THEN "de" ELSE env

\* let current = ['de', 'en'].includes(process.env.CC_LANGUAGE || '') ? ... : 'de'
StartupLanguage(env) == IF env \in {"de", "en"} THEN env ELSE "de"

\* t().common.fileNotFound(path) and t().common.error(msg)
fileNotFound(table, path) == << table.common.fileNotFound >> \o path
error(table, msg)         == << table.common.error >> \o msg

\* t().cc_set_language.languageSet(lang)
languageSet(table, lang) == << table.cc_set_language.languageSet, lang >>

\* t().cc_diff_files.header(a, b), .identical and .linesChanged(added, removed)
header(table, a, b) ==
    << table.cc_diff_files.header >> \o a \o << " <-> " >> \o b

identical(table) == << table.cc_diff_files.identical >>

linesChanged(table, added, removed) ==
    << "+" >> \o NumStr(added) \o << " / ", "-" >> \o NumStr(removed)
        \o << table.cc_diff_files.linesChanged >>

\* ------------------------------------------------------------------------
\* cc_diff_files
\* ------------------------------------------------------------------------
\* Paths as the requests give them, and the files a disk can hold.
PathP    == << "p" >>
PathQ    == << "d", "/", "/", "q" >>
PathGone == << "m" >>
Paths    == { PathP, PathQ, PathGone }

\* path.normalize: of its rules the model keeps the collapse of repeated
\* separators.
RECURSIVE normalizePath(_)
normalizePath(inputPath) ==
    IF Len(inputPath) < 2 THEN inputPath
    ELSE IF inputPath[1] = "/" /\ inputPath[2] = "/" THEN normalizePath(Tail(inputPath))
    ELSE << inputPath[1] >> \o normalizePath(Tail(inputPath))

\* path.basename: what follows the last separator.
RECURSIVE basename(_)
basename(path) ==
    IF \E k \in 1..Len(path) : path[k] = "/"
    THEN basename(Tail(path))
    ELSE path

\* Two files that differ, the one ending in a line '--' and the other in a
\* line '++'; two files with the same content.
Disks ==
    { ( normalizePath(PathP) :> << "a", "\n", "-", "-" >> )
        @@ ( normalizePath(PathQ) :> << "a", "\n", "+", "+" >> ),
      ( normalizePath(PathP) :> << "a", "\n", "b" >> )
        @@ ( normalizePath(PathQ) :> << "a", "\n", "b" >> ) }

\* The arguments of a request; context_lines may be left out.
Requests ==
    [ file_a : Paths, file_b : Paths ]
    \cup [ file_a : Paths, file_b : Paths, context_lines : {0} ]

\* A slip: the bindings of the handler live in one place shared by all
\* invocations.
SlotShared(c) == "c1"

\* const fileA, fileB, contentA, ...: each invocation has its own bindings.
Slot(c) == c

\* A slip: the existence check always succeeds.
pathExistsAlways(targetPath) == TRUE

\* try { await fs.access(targetPath); return true; } catch { return false; }
pathExists(targetPath) == targetPath \in DOMAIN files

\* A slip: the language decides the context.
ContextCountByLanguage(request) ==
    IF current = "de" THEN DefaultContext ELSE 0

\* const contextCount = params.context_lines ?? 3
ContextCount(request) ==
    IF "context_lines" \in DOMAIN request THEN request.context_lines ELSE DefaultContext

\* A slip: contents of the same length pass for equal.
IdenticalByLength(contentA, contentB) == Len(contentA) = Len(contentB)

\* if (contentA === contentB)
Identical(contentA, contentB) == contentA = contentB

startsWith(line, prefix) ==
    Len(line) >= Len(prefix) /\ SubSeq(line, 1, Len(prefix)) = prefix

\* if (line.startsWith('+') && !line.startsWith('+++')) added++, and the
\* same with '-' for removed.
Scan(diffLines, mark) ==
    Len(SelectSeq(diffLines,
                  LAMBDA line : /\ startsWith(line, << mark >>)
                                /\ ~startsWith(line, << mark, mark, mark >>)))

\* The lines that open and close the diff block; each ' stands for a
\* backquote of the source.
FenceDiff == << "'''diff" >>
Fence     == << "'''" >>

\* A binding that has not been assigned yet.
undefined == << "undefined" >>

\* The bindings after the two normalizePath calls.
EntryLocals(request) ==
    [ fileA      |-> normalizePath(request.file_a),
      fileB      |-> normalizePath(request.file_b),
      contentA   |-> undefined,
      contentB   |-> undefined,
      diffOutput |-> undefined,
      added      |-> 0,
      removed    |-> 0 ]

\* The returned values.
ErrorResponse(text) == [ isError |-> TRUE, text |-> text ]
TextResponse(text)  == [ text |-> text ]

\* The message of the error fs.readFile throws for a missing file.
ReadError(path) ==
    << "ENOENT: no such file or directory, open '" >> \o path \o << "'" >>

\* The handler from the second readFile on, run to its return: the bindings
\* it leaves and the response.  L holds both contents.
Compare(table, request, L) ==
    LET la == Split(L.contentA)
        lb == Split(L.contentB)
        contextCount == ContextCount(request)
        head == header(table, basename(L.fileA), basename(L.fileB))
    IN  IF Identical(L.contentA, L.contentB)
        THEN [ locals |-> L,
               result |-> TextResponse(Join(<< head, << >>, identical(table) >>)) ]
        ELSE LET diffOutput == computeUnifiedDiff(la, lb, contextCount, L.fileA, L.fileB)
                 diffLines  == Split(diffOutput)
                 added      == Scan(diffLines, "+")
                 removed    == Scan(diffLines, "-")
                 output     == << head, << >>, linesChanged(table, added, removed), << >>,
                                  FenceDiff, diffOutput, Fence >>
             IN  [ locals |-> [ L EXCEPT !.diffOutput = diffOutput,
                                         !.added = added,
                                         !.removed = removed ],
                   result |-> TextResponse(Join(output)) ]

InFlight(c) == callPc[c] \in {"existsA", "existsB", "readA", "readB"}

\* A step of call c runs while the others are suspended.
Stepped(c) ==
    interleaved' = [ o \in CallIds |->
                       IF o = c THEN interleaved[o]
                       ELSE interleaved[o] \/ InFlight(o) ]

EngineAtRest ==
    /\ linesA = << >>
    /\ linesB = << >>
    /\ contextLines = DefaultContext
    /\ fileA = << >>
    /\ fileB = << >>
    /\ pc = "done"
    /\ dp = << >>
    /\ i = 0
    /\ j = 0
    /\ backtrack = << >>
    /\ changes = << >>
    /\ hunks = << >>
    /\ hunkLines = << >>
    /\ hunkStartA = 0
    /\ hunkStartB = 0
    /\ hunkCountA = 0
    /\ hunkCountB = 0
    /\ lastChangeIdx = -999
    /\ idx = 0
    /\ returned = << >>

engine == << args, pc, align, group, returned >>

InitServer ==
    /\ EngineAtRest
    /\ CC_LANGUAGE = ""
    /\ current = StartupLanguage(CC_LANGUAGE)
    /\ languageLog = << >>
    /\ files \in Disks
    /\ callPc = [c \in CallIds |-> "idle"]
    /\ params = [c \in CallIds |-> << >>]
    /\ handlerLocals = [c \in CallIds |-> << >>]
    /\ response = [c \in CallIds |-> << >>]
    /\ interleaved = [c \in CallIds |-> FALSE]

\* The handler is entered: fileA and fileB are bound and pathExists(fileA)
\* is awaited.
Call(c, request) ==
    /\ callPc[c] \in {"idle", "done"}
    /\ params' = [params EXCEPT ![c] = request]
    /\ handlerLocals' = [handlerLocals EXCEPT ![Slot(c)] = EntryLocals(request)]
    /\ response' = [response EXCEPT ![c] = << >>]
    /\ callPc' = [callPc EXCEPT ![c] = "existsA"]
    /\ interleaved' = [ o \in CallIds |->
                          IF o = c THEN FALSE ELSE interleaved[o] \/ InFlight(o) ]
    /\ UNCHANGED << current, files, engine, process >>

\* A slip: the existence check opens fileA for appending, which creates a
\* missing file.
ExistsACreating(c) ==
    /\ callPc[c] = "existsA"
    /\ LET L == handlerLocals[Slot(c)]
       IN  files' = IF L.fileA \in DOMAIN files THEN files
                    ELSE [ q \in DOMAIN files \cup {L.fileA} |->
                             IF q = L.fileA THEN << >> ELSE files[q] ]
    /\ callPc' = [callPc EXCEPT ![c] = "existsB"]
    /\ Stepped(c)
    /\ UNCHANGED << current, params, handlerLocals, response, engine, process >>

\* if (!await pathExists(fileA)) return { isError: true, ... }
ExistsA(c) ==
    /\ callPc[c] = "existsA"
    /\ LET L == handlerLocals[Slot(c)]
       IN  IF ~pathExists(L.fileA)
           THEN /\ response' = [response EXCEPT ![c] = ErrorResponse(fileNotFound(t, L.fileA))]
                /\ callPc' = [callPc EXCEPT ![c] = "done"]
           ELSE /\ callPc' = [callPc EXCEPT ![c] = "existsB"]
                /\ UNCHANGED response
    /\ Stepped(c)
    /\ UNCHANGED << current, files, params, handlerLocals, engine, process >>

\* if (!await pathExists(fileB)) return { isError: true, ... }
ExistsB(c) ==
    /\ callPc[c] = "existsB"
    /\ LET L == handlerLocals[Slot(c)]
       IN  IF ~pathExists(L.fileB)
           THEN /\ response' = [response EXCEPT ![c] = ErrorResponse(fileNotFound(t, L.fileB))]
                /\ callPc' = [callPc EXCEPT ![c] = "done"]
           ELSE /\ callPc' = [callPc EXCEPT ![c] = "readA"]
                /\ UNCHANGED response
    /\ Stepped(c)
    /\ UNCHANGED << current, files, params, handlerLocals, engine, process >>

\* A slip: the handler has no try and catch, a failed read ends it without
\* a response.
ReadAUncaught(c) ==
    /\ callPc[c] = "readA"
    /\ LET L == handlerLocals[Slot(c)]
       IN  IF L.fileA \in DOMAIN files
           THEN /\ handlerLocals' = [handlerLocals EXCEPT
                                       ![Slot(c)] = [L EXCEPT !.contentA = files[L.fileA]]]
                /\ callPc' = [callPc EXCEPT ![c] = "readB"]
           ELSE /\ callPc' = [callPc EXCEPT ![c] = "done"]
                /\ UNCHANGED handlerLocals
    /\ Stepped(c)
    /\ UNCHANGED << current, files, params, response, engine, process >>

\* const contentA = await fs.readFile(fileA, 'utf-8'); a failed read is
\* caught at the end of the handler.
ReadA(c) ==
    /\ callPc[c] = "readA"
    /\ LET L == handlerLocals[Slot(c)]
       IN  IF L.fileA \in DOMAIN files
           THEN /\ handlerLocals' = [handlerLocals EXCEPT
                                       ![Slot(c)] = [L EXCEPT !.contentA = files[L.fileA]]]
                /\ callPc' = [callPc EXCEPT ![c] = "readB"]
                /\ UNCHANGED response
           ELSE /\ response' = [response EXCEPT
                                  ![c] = ErrorResponse(error(t, ReadError(L.fileA)))]
                /\ callPc' = [callPc EXCEPT ![c] = "done"]
                /\ UNCHANGED handlerLocals
    /\ Stepped(c)
    /\ UNCHANGED << current, files, params, engine, process >>

\* const contentB = await fs.readFile(fileB, 'utf-8'), and from there to
\* the return without another await.
ReadB(c) ==
    /\ callPc[c] = "readB"
    /\ LET L == handlerLocals[Slot(c)]
       IN  IF L.fileB \in DOMAIN files
           THEN LET out == Compare(t, params[c], [L EXCEPT !.contentB = files[L.fileB]])
                IN  /\ handlerLocals' = [handlerLocals EXCEPT ![Slot(c)] = out.locals]
                    /\ response' = [response EXCEPT ![c] = out.result]
           ELSE /\ response' = [response EXCEPT
                                  ![c] = ErrorResponse(error(t, ReadError(L.fileB)))]
                /\ UNCHANGED handlerLocals
    /\ callPc' = [callPc EXCEPT ![c] = "done"]
    /\ Stepped(c)
    /\ UNCHANGED << current, files, params, engine, process >>

\* export function setLanguage(lang: Lang) { current = lang; }
SetLanguage(language) ==
    /\ current' = language
    /\ UNCHANGED << files, callPc, params, handlerLocals, response, interleaved, engine, process >>

NextServer ==
    \/ \E c \in CallIds, request \in Requests : Call(c, request)
    \/ \E c \in CallIds : ExistsA(c)
    \/ \E c \in CallIds : ExistsB(c)
    \/ \E c \in CallIds : ReadA(c)
    \/ \E c \in CallIds : ReadB(c)
    \/ \E language \in Languages : SetLanguage(language)

SpecServer == InitServer /\ [][NextServer]_vars

\* ------------------------------------------------------------------------
\* Definitions the properties of cc_diff_files are stated with
\* ------------------------------------------------------------------------
Finished(c) == callPc[c] = "done"

IsError(r) == "isError" \in DOMAIN r /\ r.isError

PathA(c) == normalizePath(params[c].file_a)
PathB(c) == normalizePath(params[c].file_b)

BothExist(c) == PathA(c) \in DOMAIN files /\ PathB(c) \in DOMAIN files

\* The diff block of a response text: the lines between the opening fence
\* and the closing fence, which is the last line.
HasDiffBlock(text) == \E k \in 1..Len(Split(text)) : Split(text)[k] = FenceDiff

DiffBlock(text) ==
    LET ls == Split(text)
        k  == CHOOSE n \in 1..Len(ls) : ls[n] = FenceDiff
    IN  Join(SubSeq(ls, k + 1, Len(ls) - 1))

\* What computeUnifiedDiff yields for the two files and the context_lines
\* of the request of call c.
OwnDiff(c) ==
    computeUnifiedDiff(Split(files[PathA(c)]), Split(files[PathB(c)]),
                       IF "context_lines" \in DOMAIN params[c]
                       THEN params[c].context_lines ELSE DefaultContext,
                       PathA(c), PathB(c))

\* ------------------------------------------------------------------------
\* C16: with several cc_diff_files handlers interleaved at their awaits,
\* the response to a request for two existing, different files carries
\* exactly the diff computeUnifiedDiff yields for that request's own files
\* and context_lines.
\* ------------------------------------------------------------------------
C16_OwnDiff ==
    \A c \in CallIds :
        (Finished(c) /\ BothExist(c) /\ files[PathA(c)] # files[PathB(c)]) =>
            /\ ~IsError(response[c])
            /\ HasDiffBlock(response[c].text)
            /\ DiffBlock(response[c].text) = OwnDiff(c)

C16_Witness ==
    \E c \in CallIds, o \in CallIds :
        /\ c # o
        /\ Finished(c) /\ interleaved[c]
        /\ Finished(o) /\ interleaved[o]
        /\ HasDiffBlock(response[c].text)
        /\ HasDiffBlock(response[o].text)
        /\ DiffBlock(response[c].text) # DiffBlock(response[o].text)

\* ------------------------------------------------------------------------
\* C17: the current language shows only in the localized messages: two
\* cc_diff_files calls with the same request get the same kind of response,
\* the same diff block and the same added and removed totals, whatever
\* the language was when each response was built and whatever calls came
\* before.
\* ------------------------------------------------------------------------
C17_LanguageOnlyInMessages ==
    \A c \in CallIds, o \in CallIds :
        (Finished(c) /\ Finished(o) /\ params[c] = params[o]) =>
            /\ IsError(response[c]) = IsError(response[o])
            /\ HasDiffBlock(response[c].text) = HasDiffBlock(response[o].text)
            /\ HasDiffBlock(response[c].text) =>
                   DiffBlock(response[c].text) = DiffBlock(response[o].text)
            /\ handlerLocals[c].added = handlerLocals[o].added
            /\ handlerLocals[c].removed = handlerLocals[o].removed

C17_Witness ==
    \E c \in CallIds, o \in CallIds :
        /\ Finished(c) /\ Finished(o) /\ params[c] = params[o]
        /\ HasDiffBlock(response[c].text)
        /\ handlerLocals[c].added > 0
        /\ response[c].text # response[o].text

\* ------------------------------------------------------------------------
\* C18: on two existing files cc_diff_files answers without isError; for
\* equal contents the response ends in the 'identical' message and has no
\* diff block; for different contents it has no 'identical' message and a
\* non-empty diff block with a '---' line, a '+++' line and an '@@' line.
\* ------------------------------------------------------------------------
HasLine(ls, prefix) == \E k \in 1..Len(ls) : startsWith(ls[k], prefix)

IsIdenticalMessage(line) == \E lang \in Languages : line = identical(langs[lang])

C18_IdenticalOrDiff ==
    \A c \in CallIds :
        (Finished(c) /\ BothExist(c)) =>
            LET ls == Split(response[c].text)
            IN  /\ ~IsError(response[c])
                /\ IF files[PathA(c)] = files[PathB(c)]
                   THEN /\ IsIdenticalMessage(ls[Len(ls)])
                        /\ ~HasDiffBlock(response[c].text)
                        /\ ~HasLine(ls, << "@", "@" >>)
                   ELSE /\ \A k \in 1..Len(ls) : ~IsIdenticalMessage(ls[k])
                        /\ HasDiffBlock(response[c].text)
                        /\ LET diff == Split(DiffBlock(response[c].text))
                           IN  /\ DiffBlock(response[c].text) # << >>
                               /\ HasLine(diff, << "-", "-", "-", " " >>)
                               /\ HasLine(diff, << "+", "+", "+", " " >>)
                               /\ HasLine(diff, << "@", "@", " " >>)

C18_Witness ==
    \E c \in CallIds, o \in CallIds :
        /\ Finished(c) /\ BothExist(c)
        /\ files[PathA(c)] = files[PathB(c)]
        /\ IsIdenticalMessage(Split(response[c].text)[3])
        /\ Finished(o) /\ BothExist(o)
        /\ files[PathA(o)] # files[PathB(o)]

\* ------------------------------------------------------------------------
\* C19: when file_a does not exist the response is an isError response
\* with the file-not-found message naming file_a; otherwise, when file_b
\* does not exist, one naming file_b; in both cases no file has been read
\* and computeUnifiedDiff has not been invoked.
\* ------------------------------------------------------------------------
IsFileNotFound(text, path) ==
    \E lang \in Languages : text = fileNotFound(langs[lang], path)

C19_FileNotFound ==
    \A c \in CallIds :
        (Finished(c) /\ ~BothExist(c)) =>
            /\ IsError(response[c])
            /\ IsFileNotFound(response[c].text,
                              IF PathA(c) \notin DOMAIN files THEN PathA(c) ELSE PathB(c))
            /\ handlerLocals[c].contentA = undefined
            /\ handlerLocals[c].contentB = undefined
            /\ handlerLocals[c].diffOutput = undefined

C19_Witness ==
    \E c \in CallIds, o \in CallIds :
        /\ Finished(c) /\ PathA(c) \notin DOMAIN files /\ PathB(c) \in DOMAIN files
        /\ IsFileNotFound(response[c].text, PathA(c))
        /\ Finished(o) /\ PathA(o) \in DOMAIN files /\ PathB(o) \notin DOMAIN files
        /\ IsFileNotFound(response[o].text, PathB(o))

\* ------------------------------------------------------------------------
\* C20: the summary of a response with a diff shows as 'added' the number
\* of Insert records and as 'removed' the number of Delete records of the
\* alignment of the two files, also when an inserted line begins with '++'
\* or a deleted line with '--'.
\* ------------------------------------------------------------------------
C20_TotalsCountRecords ==
    \A c \in CallIds :
        (Finished(c) /\ BothExist(c) /\ HasDiffBlock(response[c].text)) =>
            LET chs == ChangeList(Split(files[PathA(c)]), Split(files[PathB(c)]))
                ins == Len(OfType(chs, {"insert"}))
                del == Len(OfType(chs, {"delete"}))
            IN  \E lang \in Languages :
                    Split(response[c].text)[3] = linesChanged(langs[lang], ins, del)

\* ------------------------------------------------------------------------
\* The server with its disk: files are removed while calls are in flight
\* ------------------------------------------------------------------------
\* Another process removes a file.
RemoveFile(path) ==
    /\ path \in DOMAIN files
    /\ files' = [ q \in DOMAIN files \ {path} |-> files[q] ]
    /\ UNCHANGED << current, callPc, params, handlerLocals, response, interleaved,
                    engine, process >>

\* One call at a time is followed.
DiskCall == "c1"

NextDisk ==
    \/ \E request \in Requests : Call(DiskCall, request)
    \/ ExistsA(DiskCall)
    \/ ExistsB(DiskCall)
    \/ ReadA(DiskCall)
    \/ ReadB(DiskCall)
    \/ \E language \in Languages : SetLanguage(language)
    \/ \E path \in DOMAIN files : RemoveFile(path)

SpecDisk == InitServer /\ [][NextDisk]_vars

\* ------------------------------------------------------------------------
\* C21: cc_diff_files is read-only: no step of a call, whether the call
\* ends with a diff, with the identical message or with an error, changes
\* the content of a file, creates or removes a file, or changes the current
\* language.
\* ------------------------------------------------------------------------
C21_ReadOnly ==
    [][ (callPc' # callPc) => (files' = files /\ current' = current) ]_vars

C21_Witness ==
    /\ Finished(DiskCall)
    /\ HasDiffBlock(response[DiskCall].text)
    /\ BothExist(DiskCall)
    /\ files[PathA(DiskCall)] = handlerLocals[DiskCall].contentA
    /\ files[PathB(DiskCall)] = handlerLocals[DiskCall].contentB

\* ------------------------------------------------------------------------
\* The language of the process: CC_LANGUAGE, setLanguage, cc_set_language
\* ------------------------------------------------------------------------
MaxLanguageCalls == 3

\* The language codes a cc_set_language request may carry.
LanguageArgs == {"de", "en", "fr"}

\* A slip: every language code passes.
ValidAny(language) == TRUE

\* { language: z.enum(["de", "en"]) }
Valid(language) == language \in {"de", "en"}

\* The reply to a request the schema rejects; the handler is not entered.
InvalidArguments == << "Invalid arguments for tool cc_set_language" >>

\* A slip: the assignment is missing.
setLanguageIgnored(lang) == UNCHANGED current

\* export function setLanguage(lang: Lang) { current = lang; }
setLanguage(lang) == current' = lang

\* The tool cc_set_language: setLanguage(language), then the reply from
\* t(), which is read after the assignment (a t() without a table throws).
cc_set_language(language) ==
    /\ Len(languageLog) < MaxLanguageCalls
    /\ IF Valid(language)
       THEN /\ setLanguage(language)
            /\ languageLog' =
                 Append(languageLog,
                        [ language |-> language,
                          reply |-> IF current' \in DOMAIN langs
                                    THEN TextResponse(languageSet(t', language))
                                    ELSE ErrorResponse(<< "TypeError" >>) ])
       ELSE /\ UNCHANGED current
            /\ languageLog' =
                 Append(languageLog,
                        [ language |-> language, reply |-> ErrorResponse(InvalidArguments) ])
    /\ UNCHANGED << files, callPc, params, handlerLocals, response, interleaved,
                    CC_LANGUAGE, engine >>

\* setLanguage called directly, as the i18n tests do; there is no reply.
setLanguageCall(lang) ==
    /\ Len(languageLog) < MaxLanguageCalls
    /\ setLanguage(lang)
    /\ languageLog' = Append(languageLog, [ language |-> lang ])
    /\ UNCHANGED << files, callPc, params, handlerLocals, response, interleaved,
                    CC_LANGUAGE, engine >>

InitLanguage ==
    /\ EngineAtRest
    /\ CC_LANGUAGE \in EnvValues
    /\ current = StartupLanguage(CC_LANGUAGE)
    /\ languageLog = << >>
    /\ files = << >>
    /\ callPc = [c \in CallIds |-> "idle"]
    /\ params = [c \in CallIds |-> << >>]
    /\ handlerLocals = [c \in CallIds |-> << >>]
    /\ response = [c \in CallIds |-> << >>]
    /\ interleaved = [c \in CallIds |-> FALSE]

NextLanguage ==
    \/ \E language \in LanguageArgs : cc_set_language(language)
    \/ \E lang \in Languages : setLanguageCall(lang)

SpecLanguage == InitLanguage /\ [][NextLanguage]_vars

\* ------------------------------------------------------------------------
\* C22: before any setLanguage or cc_set_language call the current language
\* is the value of CC_LANGUAGE when that is exactly 'de' or 'en' and 'de'
\* otherwise (unset, empty, any other string); getLanguage() returns it and
\* t() returns its table.
\* ------------------------------------------------------------------------
C22_StartupLanguage ==
    languageLog = << >> =>
        LET startup == IF CC_LANGUAGE = "en" THEN "en" ELSE "de"
        IN  /\ getLanguage = startup
            /\ t = IF startup = "en" THEN en ELSE de

C22_Witness ==
    /\ languageLog = << >>
    /\ CC_LANGUAGE = "fr"
    /\ getLanguage = "de"
    /\ t.common.fileNotFound = "Datei nicht gefunden: "

\* ------------------------------------------------------------------------
\* C23: after any sequence of setLanguage and cc_set_language calls,
\* getLanguage() returns the argument of the most recent call that carried a
\* language of the schema and t() returns that language's table, whatever
\* CC_LANGUAGE was; this holds until the next call, so de -> en -> de gives
\* German again; and the reply of cc_set_language is in the language it set.
\* ------------------------------------------------------------------------
\* The arguments of the calls so far that carried 'de' or 'en'.
SetSoFar ==
    LET taken == SelectSeq(languageLog, LAMBDA call : call.language \in {"de", "en"})
    IN  [ k \in 1..Len(taken) |-> taken[k].language ]

C23_MostRecentCall ==
    /\ SetSoFar # << >> =>
           /\ getLanguage = SetSoFar[Len(SetSoFar)]
           /\ t = IF SetSoFar[Len(SetSoFar)] = "en" THEN en ELSE de
    /\ \A k \in 1..Len(languageLog) :
           ("reply" \in DOMAIN languageLog[k] /\ languageLog[k].language = "en") =>
               languageLog[k].reply = [ text |-> << "Language set to: ", "en" >> ]
    /\ \A k \in 1..Len(languageLog) :
           ("reply" \in DOMAIN languageLog[k] /\ languageLog[k].language = "de") =>
               languageLog[k].reply = [ text |-> << "Sprache gesetzt auf: ", "de" >> ]

C23_Witness ==
    /\ CC_LANGUAGE = "en"
    /\ SetSoFar = << "de", "en", "de" >>
    /\ "reply" \in DOMAIN languageLog[3]
    /\ "reply" \notin DOMAIN languageLog[2]
    /\ getLanguage = "de"
    /\ t.common.error = "Fehler: "

\* ------------------------------------------------------------------------
\* C29: the current language is always 'de' or 'en', so t() is always one
\* of the two tables; cc_set_language rejects every other language code
\* with an error reply and leaves the current language as it was.
\* ------------------------------------------------------------------------
C29_LanguageDefined ==
    /\ [](current \in {"de", "en"} /\ t \in {de, en})
    /\ [](\A k \in 1..Len(languageLog) :
            languageLog[k].language \notin {"de", "en"} => IsError(languageLog[k].reply))
    /\ [][ (Len(languageLog') > Len(languageLog)
            /\ languageLog'[Len(languageLog')].language \notin {"de", "en"})
           => current' = current ]_vars

C29_Witness ==
    /\ CC_LANGUAGE = "fr"
    /\ Len(languageLog) = 2
    /\ languageLog[1].language = "en"
    /\ languageLog[2].language = "fr"
    /\ IsError(languageLog[2].reply)
    /\ current = "en"

\* ------------------------------------------------------------------------
\* C28: also when the language is switched while a cc_diff_files call is
\* suspended at its awaits, the localized parts of a response without error
\* (the header, and the identical message or the lines-changed summary) are
\* all in one language: the one current when the response is built, after
\* the last file read.
\* ------------------------------------------------------------------------
\* The language of the header and of the message under it.
HeaderLanguage(text) ==
    { lang \in Languages : Split(text)[1][1] = langs[lang].cc_diff_files.header }

MessageLanguage(text) ==
    LET line == Split(text)[3]
    IN  { lang \in Languages :
            \/ line = << langs[lang].cc_diff_files.identical >>
            \/ line[Len(line)] = langs[lang].cc_diff_files.linesChanged }

C28_SingleLanguage ==
    [][ \A c \in CallIds :
          (callPc[c] = "readB" /\ callPc'[c] = "done" /\ ~IsError(response'[c])) =>
              /\ HeaderLanguage(response'[c].text) = { current }
              /\ MessageLanguage(response'[c].text) = { current } ]_vars

C28_Witness ==
    \E c \in CallIds, o \in CallIds :
        /\ Finished(c) /\ interleaved[c] /\ ~IsError(response[c])
        /\ Finished(o) /\ interleaved[o] /\ ~IsError(response[o])
        /\ HeaderLanguage(response[c].text) = { "de" }
        /\ MessageLanguage(response[c].text) = { "de" }
        /\ HeaderLanguage(response[o].text) = { "en" }
        /\ MessageLanguage(response[o].text) = { "en" }

\* ------------------------------------------------------------------------
\* C27: computeUnifiedDiff is invoked only after both files have been read;
\* when a file has passed the existence check and is gone when it is read,
\* the call ends with an isError response carrying the localized error
\* message, no exception leaves the handler, and computeUnifiedDiff is not
\* invoked.
\* ------------------------------------------------------------------------
\* The file the call reads next.
NextRead(c) ==
    IF callPc[c] = "readA" THEN handlerLocals[c].fileA ELSE handlerLocals[c].fileB

IsErrorMessage(text) ==
    \E lang \in Languages : text[1] = langs[lang].common.error

C27_ReadFailure ==
    /\ [](\A c \in CallIds :
            (callPc[c] # "idle" /\ handlerLocals[c].diffOutput # undefined) =>
                /\ handlerLocals[c].contentA # undefined
                /\ handlerLocals[c].contentB # undefined)
    /\ [](\A c \in CallIds : Finished(c) => response[c] # << >>)
    /\ [][ \A c \in CallIds :
             (/\ callPc[c] \in {"readA", "readB"}
              /\ callPc'[c] # callPc[c]
              /\ NextRead(c) \notin DOMAIN files) =>
                 /\ callPc'[c] = "done"
                 /\ IsError(response'[c])
                 /\ IsErrorMessage(response'[c].text)
                 /\ handlerLocals'[c].diffOutput = undefined ]_vars

C27_Witness ==
    /\ Finished(DiskCall)
    /\ IsError(response[DiskCall])
    /\ IsErrorMessage(response[DiskCall].text)
    /\ handlerLocals[DiskCall].contentA # undefined
    /\ handlerLocals[DiskCall].contentB = undefined
    /\ handlerLocals[DiskCall].fileB \notin DOMAIN files

\* ------------------------------------------------------------------------
\* The backtracker as a rule on the table of longest-common-subsequence
\* lengths: from (i, j), Equal when both are positive and the lines match,
\* else Insert when j is positive and i is zero or the cell to the left is
\* at least the cell above, else Delete; the records are collected from
\* (|A|, |B|) back to (0, 0) and then reversed.
\* ------------------------------------------------------------------------
LengthTable(a, b) ==
    [m \in 0..Len(a) |-> [n \in 0..Len(b) |-> LCSLength(FirstN(a, m), FirstN(b, n))]]

RECURSIVE BackwardRecords(_, _, _, _, _)
BackwardRecords(a, b, lengths, m, n) ==
    IF m = 0 /\ n = 0 THEN << >>
    ELSE IF m > 0 /\ n > 0 /\ a[m] = b[n]
    THEN << [type |-> "equal", lineA |-> m - 1, lineB |-> n - 1, text |-> a[m]] >>
         \o BackwardRecords(a, b, lengths, m - 1, n - 1)
    ELSE IF n > 0 /\ (m = 0 \/ lengths[m][n - 1] >= lengths[m - 1][n])
    THEN << [type |-> "insert", lineB |-> n - 1, text |-> b[n]] >>
         \o BackwardRecords(a, b, lengths, m, n - 1)
    ELSE << [type |-> "delete", lineA |-> m - 1, text |-> a[m]] >>
         \o BackwardRecords(a, b, lengths, m - 1, n)

SpecifiedRecords(a, b) ==
    Reverse(BackwardRecords(a, b, LengthTable(a, b), Len(a), Len(b)))

\* ------------------------------------------------------------------------
\* C24: the change list handed to the grouper is, record for record, the
\* list the backtracking rule yields on the table of longest-common-
\* subsequence lengths: Equal when i > 0, j > 0 and A[i-1] = B[j-1]; else
\* Insert when j > 0 and (i = 0 or dp[i][j-1] >= dp[i-1][j]); else Delete;
\* then reversed.
\* ------------------------------------------------------------------------
C24_SpecifiedBacktracker ==
    Aligned => changes = SpecifiedRecords(linesA, linesB)

C24_Witness ==
    /\ pc = "group"
    /\ idx = 0
    /\ Len(changes) >= 5
    /\ \A kind \in {"equal", "insert", "delete"} :
          \E k \in 1..Len(changes) : changes[k].type = kind
    /\ \E k \in 1..Len(changes) : PushedAtTie(k)
    /\ changes = SpecifiedRecords(linesA, linesB)

\* ------------------------------------------------------------------------
\* All inputs up to the bounds together with the worked examples.
\* ------------------------------------------------------------------------
InitBoth == Init \/ InitScenario

SpecBoth == InitBoth /\ [][Next]_vars

\* ------------------------------------------------------------------------
\* C25: read in forward order, no Insert record of the change list is
\* directly followed by a Delete record; in every maximal run of records
\* that are not Equal all Deletes stand before all Inserts; in the report
\* no '+' line of a hunk is directly followed by a '-' line; and for
\* A = [a, b, c], B = [a, x, c] with at least one line of context the one
\* hunk is ' a', '-b', '+x', ' c'.
\* ------------------------------------------------------------------------
ReplaceB ==
    /\ linesA = << <<"a">>, <<"b">>, <<"c">> >>
    /\ linesB = << <<"a">>, <<"x">>, <<"c">> >>

C25_DeleteBeforeInsert ==
    /\ Aligned =>
          /\ \A k \in 1..(Len(changes) - 1) :
                ~(changes[k].type = "insert" /\ changes[k + 1].type = "delete")
          /\ \A k \in 1..Len(changes) :
                changes[k].type # "equal" =>
                    RunOrdered(TypesOf(changes), k, {"insert", "delete"}, "delete", "insert")
    /\ Done =>
          /\ \A p \in 3..(Len(ReportLines) - 1) :
                ~(MarksOf(ReportLines)[p] = "+" /\ MarksOf(ReportLines)[p + 1] = "-")
          /\ (ReplaceB /\ contextLines >= 1) =>
                /\ Len(hunks) = 1
                /\ SubSeq(ReportLines, 4, Len(ReportLines))
                     = << <<" ", "a">>, <<"-", "b">>, <<"+", "x">>, <<" ", "c">> >>

C25_Witness ==
    /\ Done
    /\ ReplaceB
    /\ contextLines >= 1
    /\ TypesOf(changes) = << "equal", "delete", "insert", "equal" >>
    /\ Len(ReportLines) = 7

\* ------------------------------------------------------------------------
\* C26: the hunks stand in increasing order and do not overlap: for
\* consecutive hunks h and h', h.startA + h.countA < h'.startA and
\* h.startB + h.countB < h'.startB; an Equal record lies between the two
\* and is shown by neither; every hunk shows exactly the records its
\* ranges cover, in order; and no Equal record is shown by two hunks.
\* ------------------------------------------------------------------------
\* Record k of the change list lies in the ranges of hunk h.
CoveredBy(h, k) ==
    LET c == changes[k]
    IN  IF c.type = "insert"
        THEN c.lineB >= h.startB /\ c.lineB < h.startB + h.countB
        ELSE c.lineA >= h.startA /\ c.lineA < h.startA + h.countA

RenderedRecord(c) ==
    IF c.type = "equal" THEN <<" ">> \o c.text
    ELSE IF c.type = "delete" THEN <<"-">> \o c.text
    ELSE <<"+">> \o c.text

RECURSIVE RenderedFrom(_, _)
RenderedFrom(h, k) ==
    IF k > Len(changes) THEN << >>
    ELSE (IF CoveredBy(h, k) THEN << RenderedRecord(changes[k]) >> ELSE << >>)
         \o RenderedFrom(h, k + 1)

C26_HunksApart ==
    Aligned =>
        /\ \A n \in 1..(Len(hunks) - 1) :
              LET h    == hunks[n]
                  next == hunks[n + 1]
              IN  /\ h.startA + h.countA < next.startA
                  /\ h.startB + h.countB < next.startB
                  /\ \E k \in 1..Len(changes) :
                        /\ changes[k].type = "equal"
                        /\ changes[k].lineA >= h.startA + h.countA
                        /\ changes[k].lineA < next.startA
                        /\ changes[k].lineB >= h.startB + h.countB
                        /\ changes[k].lineB < next.startB
                        /\ \A m \in 1..Len(hunks) : ~CoveredBy(hunks[m], k)
        /\ \A n \in 1..Len(hunks) : hunks[n].lines = RenderedFrom(hunks[n], 1)
        /\ \A k \in 1..Len(changes) :
              changes[k].type = "equal" =>
                  Cardinality({ n \in 1..Len(hunks) : CoveredBy(hunks[n], k) }) <= 1

C26_Witness ==
    /\ Done
    /\ contextLines >= 1
    /\ Len(hunks) >= 2
    /\ hunks[1].startA + hunks[1].countA < hunks[2].startA
    /\ \E p \in 1..Len(hunks[1].lines) : Head(hunks[1].lines[p]) = " "
    /\ \E p \in 1..Len(hunks[2].lines) : Head(hunks[2].lines[p]) = " "

\* ------------------------------------------------------------------------
\* computeUnifiedDiff called with a context far larger than any input: the
\* parameter contextLines has no upper limit of its own.
\* ------------------------------------------------------------------------
LargeContexts == { 499, 500, 1000 }

InitLargeContext ==
    /\ linesA \in LineSeqs
    /\ linesB \in LineSeqs
    /\ contextLines \in LargeContexts
    /\ fileA \in LabelsA
    /\ fileB \in LabelsB
    /\ pc = "lcs"
    /\ dp = <<>>
    /\ i = 0
    /\ j = 0
    /\ backtrack = <<>>
    /\ changes = <<>>
    /\ hunks = <<>>
    /\ hunkLines = <<>>
    /\ hunkStartA = 0
    /\ hunkStartB = 0
    /\ hunkCountA = 0
    /\ hunkCountB = 0
    /\ lastChangeIdx = -999
    /\ idx = 0
    /\ returned = <<>>
    /\ NoCalls

SpecContexts == (Init \/ InitLargeContext) /\ [][Next]_vars

\* ------------------------------------------------------------------------
\* C30: whenever a hunk is opened the two start positions are computed
\* non-negative, so the clamps to 0 leave them as they are; the hunk list
\* is the same for any other initial value of lastChangeIdx; and the first
\* change opens the first hunk with the unchanged lines before it, at most
\* contextLines of them, starting at their position in both inputs.  This
\* holds for small contexts and for contextLines of 499, 500 and 1000.
\* ------------------------------------------------------------------------
\* The loop stands at a change for which the start positions are computed.
OpensHunk ==
    /\ pc = "group"
    /\ idx < Len(changes)
    /\ At(changes, idx).type # "equal"
    /\ \/ Len(hunkLines) = 0
       \/ ClosesHunk(idx, lastChangeIdx, contextLines, hunks, hunkLines)

\* Other values lastChangeIdx could have been initialised with.
OtherSentinels == { -1000000, -1000, -998, -500, -2, -1, 0, 1, 7 }

HunksFromSentinel(s) ==
    CloseLast(changes, contextLines,
              GroupLoop(changes, contextLines, 0,
                        GroupLocals(<<>>, <<>>, 0, 0, 0, 0, s))).hunks

\* The unchanged lines shown before the first change, which is at idx.
FirstLeadingContext ==
    LET n == IF contextLines < idx THEN contextLines ELSE idx
    IN  [k \in 1..n |-> <<" ">> \o changes[idx - n + k].text]

C30_ClampsAndSentinel ==
    /\ [](OpensHunk =>
             LET count == Len(LeadingContext(changes, idx, contextLines))
                 rawA  == RawStartA(changes, idx, count)
                 rawB  == RawStartB(changes, idx, count)
             IN  /\ rawA >= 0
                 /\ rawB >= 0
                 /\ Clamp(rawA) = rawA
                 /\ Clamp(rawB) = rawB)
    /\ [](pc \in {"format", "done"} =>
             \A s \in OtherSentinels : hunks = HunksFromSentinel(s))
    /\ [][ (lastChangeIdx = -999 /\ lastChangeIdx' # -999) =>
             /\ lastChangeIdx' = idx
             /\ hunks' = <<>>
             /\ hunkLines' = FirstLeadingContext \o << ChangeLine(At(changes, idx)) >>
             /\ hunkStartA' = idx - Len(FirstLeadingContext)
             /\ hunkStartB' = idx - Len(FirstLeadingContext) ]_vars

C30_Witness ==
    /\ Done
    /\ contextLines >= 500
    /\ Len(hunks) = 1
    /\ changes[1].type = "equal"
    /\ changes[2].type # "equal"
    /\ hunks[1].startA = 0
    /\ hunks[1].startB = 0
    /\ Head(hunks[1].lines[1]) = " "
    /\ lastChangeIdx >= 1

====
